---- MODULE Spec2Model ----
(***************************************************************************)
(* Token-registry pipelines of the repository:                             *)
(*   update_token_map_from_listedon.py  (ListedOn -> CoinGecko -> merge    *)
(*                                       into token_map.json)              *)
(*   scanner.py                         (CoinGecko markets scan ->         *)
(*                                       token_map.json written afresh)    *)
(* Both scripts share one backing store, token_map.json.                   *)
(*                                                                         *)
(* Conventions.                                                            *)
(*   Optional values (Python None) are sequences of length <= 1.           *)
(*   A call's outcome is a record [exc, val]: exc = "" for a normal        *)
(*   return, else the name of the exception that propagates.               *)
(*   Dates are day numbers; sorted(list(set)) is kept as the set.          *)
(***************************************************************************)
EXTENDS Integers, Sequences, FiniteSets, TLC

VARIABLES
    file,                 \* token_map.json on disk: [kind, data]
    prog,                 \* script of the current run: "none", "listedon", "scanner"
    pc,                   \* position of the running main()
    err,                  \* exception that ended the run ("" if none)
    runs,                 \* number of runs started
    candidates_by_url,    \* main: ordered dict url -> TickerCandidate
    filtered_by_age,      \* main: step 3 result
    filtered_candidates,  \* main: step 4 result
    i,                    \* loop index of the running loop
    tokens,               \* main: the loaded list, extended in place
    existing_ids,         \* main: set of lowercased coingecko ids
    existing_chain_addr,  \* main: set of (chain, address) keys
    added,                \* main: entries added in this run
    scan_candidates,      \* scan_tokens: `candidates`, the markets rows in range
    tokens_by_key,        \* scan_tokens: ordered dict key -> entry
    written,              \* save: number of entries flushed to the file so far
    file0,                \* history: the file when the current run started
    resolved,             \* history: per processed unit, what the lookup gave
    prevRun,              \* history: the previous run, if main() ran to its end
    lastResp              \* history: the lookup answers given to the last unit

vars == <<file, prog, pc, err, runs, candidates_by_url, filtered_by_age,
          filtered_candidates, i, tokens, existing_ids, existing_chain_addr,
          added, scan_candidates, tokens_by_key, written, file0, resolved, prevRun, lastResp>>

---------------------------------------------------------------------------
(* Bounds of the model *)

MaxRuns == 2        \* runs of either script in one behaviour
MaxRows == 2        \* rows scraped from the exchange pages in one run
MaxListings == 3    \* listings on one ticker page (eligibility check)
MaxPlatforms == 3   \* entries of one platforms mapping (chain selection check)

---------------------------------------------------------------------------
(* Configuration of update_token_map_from_listedon.py *)

TARGET_EXCHANGES == {"mxc", "bybit_spot", "gate", "binance", "kucoin", "huobi", "bingx"}
SOURCE_EXCHANGES == <<"mxc", "bybit_spot", "gate", "binance", "kucoin", "huobi", "bingx">>
MIN_AGE_DAYS == 7
MAX_AGE_DAYS == 90
MIN_MCAP_USD == 3000000
MAX_MCAP_USD == 1000000000
MIN_VOLUME_USD == 0
ALLOWED_CHAINS == {"ethereum", "bnb", "solana"}
MIN_TARGET_EXCHANGES == 2
NO_RANK_SCORE == 10000

\* PLATFORM_TO_CHAIN.get(name): an optional chain
PLATFORM_TO_CHAIN(name) ==
    CASE name = "ethereum" -> <<"ethereum">>
      [] name = "eth" -> <<"ethereum">>
      [] name = "binance-smart-chain" -> <<"bnb">>
      [] name = "bnb-smart-chain" -> <<"bnb">>
      [] name = "bsc" -> <<"bnb">>
      [] name = "solana" -> <<"solana">>
      [] OTHER -> <<>>

---------------------------------------------------------------------------
(* Configuration of scanner.py *)

MIN_MCAP == 1000000
MAX_MCAP == 1000000000
MAX_PAGES == 20
MIN_TARGET_VENUES == 3
SCANNER_ALLOWED_CHAINS == {"ethereum", "bnb", "solana"}
SCANNER_TARGET_EXCHANGES == {"binance", "gate", "kucoin", "mexc", "bybit", "htx"}

\* scanner.PLATFORM_TO_CHAIN.get(name): an optional chain
SCANNER_PLATFORM_TO_CHAIN(name) ==
    CASE name = "ethereum" -> <<"ethereum">>
      [] name = "binance-smart-chain" -> <<"bnb">>
      [] name = "bnb-smart-chain" -> <<"bnb">>
      [] name = "bnb-chain" -> <<"bnb">>
      [] name = "solana" -> <<"solana">>
      [] OTHER -> <<>>

\* EXCHANGE_MATCH_SUBSTRINGS
EXCHANGE_MATCH_SUBSTRINGS(ex) ==
    CASE ex = "binance" -> {"binance"}
      [] ex = "gate" -> {"gate.io", "gate"}
      [] ex = "kucoin" -> {"kucoin"}
      [] ex = "mexc" -> {"mexc"}
      [] ex = "bybit" -> {"bybit"}
      [] OTHER -> {"htx", "huobi"}

---------------------------------------------------------------------------
(* Generic helpers *)

None == <<>>
Some(v) == <<v>>

Ret(v) == [exc |-> "", val |-> v]
Raise(e) == [exc |-> e, val |-> <<>>]

\* str.lower() on the strings of the model
Lower(s) ==
    CASE s = "0xAA" -> "0xaa"
      [] s = "0xBB" -> "0xbb"
      [] s = "FOO" -> "foo"
      [] s = "BAR" -> "bar"
      [] s = "Foo" -> "foo"
      [] s = "Ethereum" -> "ethereum"
      [] s = "Binance" -> "binance"
      [] s = "Gate.io" -> "gate.io"
      [] s = "KuCoin" -> "kucoin"
      [] s = "Huobi" -> "huobi"
      [] s = "Uniswap V3" -> "uniswap v3"
      [] OTHER -> s

\* str.upper() on the strings of the model
Upper(s) ==
    CASE s = "foo" -> "FOO"
      [] s = "Foo" -> "FOO"
      [] s = "bar" -> "BAR"
      [] s = "0xaa" -> "0XAA"
      [] OTHER -> s

SeqRange(s) == {s[k] : k \in DOMAIN s}

Min(S) == CHOOSE m \in S : \A n \in S : m <= n

RECURSIVE SeqsUpTo(_, _)
\* all sequences over S of length 0..n
SeqsUpTo(S, n) ==
    IF n = 0 THEN {<<>>}
    ELSE LET shorter == SeqsUpTo(S, n - 1)
         IN  shorter \cup {Append(q, e) : q \in {p \in shorter : Len(p) = n - 1}, e \in S}

---------------------------------------------------------------------------
(* token_map.json: what the file holds *)

Absent == [kind |-> "absent", data |-> <<>>]        \* no such file
EmptyFile == [kind |-> "empty", data |-> <<>>]      \* a file of zero bytes
Garbage == [kind |-> "garbage", data |-> <<>>]      \* text that is not JSON
NonList == [kind |-> "nonlist", data |-> <<>>]      \* JSON, but not a list (e.g. {})
ListFile(d) == [kind |-> "list", data |-> d]        \* json.dump of the list d
PartialFile(d) == [kind |-> "partial", data |-> d]  \* "[" and the text of d's entries, cut short

NonObject == [nonobject |-> TRUE]                   \* a list element that is no JSON object
IsObject(t) == "nonobject" \notin DOMAIN t

\* dict.get(key) or ""
GetOr(t, key) == IF key \in DOMAIN t THEN t[key] ELSE ""

---------------------------------------------------------------------------
(* Models: ExchangeListing, TickerCandidate *)

Today == 1000

ExchangeListing(slug, d) == [exchange_slug |-> slug, listing_date |-> d]

TickerCandidate(sym, url) ==
    [symbol |-> sym, ticker_url |-> url, discovered_on |-> {}, listings |-> <<>>]

target_exchanges(cand) ==
    {l.exchange_slug : l \in {m \in SeqRange(cand.listings) : m.exchange_slug \in TARGET_EXCHANGES}}

first_listing_date(cand) ==
    IF cand.listings = <<>> THEN None
    ELSE Some(Min({l.listing_date : l \in SeqRange(cand.listings)}))

AgeInWindowExclusive(age) == MIN_AGE_DAYS < age /\ age < MAX_AGE_DAYS

AgeInWindow(age) == MIN_AGE_DAYS <= age /\ age <= MAX_AGE_DAYS

listing_age_ok(cand, today) ==
    \E k \in DOMAIN cand.listings :
        /\ cand.listings[k].exchange_slug \in TARGET_EXCHANGES
        /\ AgeInWindow(today - cand.listings[k].listing_date)

---------------------------------------------------------------------------
(* HTTP and CoinGecko (update_token_map_from_listedon.py) *)

\* What one GET meets: a transport exception, a non-200 answer, a 200 answer
\* whose body is not JSON, or a 200 answer with a JSON body.
HttpDown == [raised |-> TRUE, status |-> 0, json |-> None]
HttpStatus(code) == [raised |-> FALSE, status |-> code, json |-> None]
HttpBadJson == [raised |-> FALSE, status |-> 200, json |-> None]
HttpOK(body) == [raised |-> FALSE, status |-> 200, json |-> Some(body)]

HttpFailed(o) == o.raised \/ o.status # 200

http_get_uncaught(o) ==
    IF o.raised THEN Raise("RequestException")
    ELSE IF o.status # 200 THEN Ret(None)
    ELSE Ret(Some(o))

http_get(o) ==
    IF o.raised THEN Ret(None)
    ELSE IF o.status # 200 THEN Ret(None)
    ELSE Ret(Some(o))

coingecko_search_symbol(o) ==
    LET resp == http_get(o)
    IN  IF resp.exc # "" THEN resp
        ELSE IF resp.val = None THEN Ret(<<>>)
        ELSE IF resp.val[1].json = None THEN Ret(<<>>)
        ELSE Ret(resp.val[1].json[1].coins)

coingecko_get_coin(o) ==
    LET resp == http_get(o)
    IN  IF resp.exc # "" THEN resp
        ELSE IF resp.val = None THEN Ret(None)
        ELSE IF resp.val[1].json = None THEN Ret(None)
        ELSE Ret(Some(resp.val[1].json[1]))

RECURSIVE ChainCandidates(_)
\* the list `candidates` of choose_chain_and_address, in iteration order
ChainCandidates(platforms) ==
    IF platforms = <<>> THEN <<>>
    ELSE LET p == Head(platforms)
             chain == PLATFORM_TO_CHAIN(Lower(p.name))
             rest == ChainCandidates(Tail(platforms))
         IN  IF p.addr = "" THEN rest
             ELSE IF chain # None /\ chain[1] \in ALLOWED_CHAINS
                  THEN <<[chain |-> chain[1], addr |-> p.addr]>> \o rest
                  ELSE rest

CHAIN_PRIORITY == <<"bnb", "ethereum", "solana">>

\* first candidate on chain ch, if any
FirstOnChain(candidates, ch) ==
    LET hits == {k \in DOMAIN candidates : candidates[k].chain = ch}
    IN  IF hits = {} THEN None ELSE Some(candidates[Min(hits)])

\* the first supported pair, whatever its chain
choose_first_candidate(platforms) ==
    IF ChainCandidates(platforms) = <<>> THEN None ELSE Some(ChainCandidates(platforms)[1])

choose_chain_and_address(platforms) ==
    IF platforms = <<>> THEN None
    ELSE LET candidates == ChainCandidates(platforms)
             preferred == {k \in DOMAIN CHAIN_PRIORITY :
                              FirstOnChain(candidates, CHAIN_PRIORITY[k]) # None}
         IN  IF candidates = <<>> THEN None
             ELSE IF preferred # {}
                  THEN FirstOnChain(candidates, CHAIN_PRIORITY[Min(preferred)])
                  ELSE Some(candidates[1])

\* score(item) of find_token_on_coingecko: (-exact, rank_score)
score(item, symbol) ==
    LET exact == IF Lower(item.symbol) = Lower(symbol) THEN 1 ELSE 0
        rank_score == IF item.market_cap_rank = None THEN NO_RANK_SCORE
                      ELSE item.market_cap_rank[1]
    IN  <<0 - exact, rank_score>>

TupleLess(a, b) == a[1] < b[1] \/ (a[1] = b[1] /\ a[2] < b[2])

RECURSIVE SortedByScore(_, _)
\* sorted(candidates, key=score): stable
SortedByScore(items, symbol) ==
    IF items = <<>> THEN <<>>
    ELSE LET n == Len(items)
             x == items[n]
             front == SortedByScore(SubSeq(items, 1, n - 1), symbol)
             \* x goes after every element whose key is <= its key
             keep == {k \in DOMAIN front : ~TupleLess(score(x, symbol), score(front[k], symbol))}
             pos == IF keep = {} THEN 0 ELSE CHOOSE m \in keep : \A q \in keep : q <= m
         IN  SubSeq(front, 1, pos) \o <<x>> \o SubSeq(front, pos + 1, Len(front))

McapInRangeOpen(mcap) == MIN_MCAP_USD < mcap /\ mcap < MAX_MCAP_USD

McapInRange(mcap) == MIN_MCAP_USD <= mcap /\ mcap <= MAX_MCAP_USD

\* the filters one fetched coin goes through (body of the loop, after the fetch):
\* the info dict of an accepted coin, else None
CoinToInfo(symbol, item, coin) ==
    LET chain_addr == choose_chain_and_address(coin.platforms)
    IN  IF chain_addr = None THEN None
        ELSE IF coin.mcap = None THEN None
        ELSE IF ~McapInRange(coin.mcap[1]) THEN None
        ELSE IF coin.vol # None /\ coin.vol[1] < MIN_VOLUME_USD THEN None
        ELSE Some([symbol |-> Upper(IF coin.symbol # "" THEN coin.symbol ELSE symbol),
                   name |-> IF coin.name # "" THEN coin.name
                            ELSE IF item.name # "" THEN item.name ELSE symbol,
                   coingecko_id |-> item.id,
                   chain |-> chain_addr[1].chain,
                   address |-> chain_addr[1].addr,
                   market_cap |-> coin.mcap[1],
                   volume_24h |-> coin.vol])

RECURSIVE ExamineStubs(_, _, _, _)
\* the loop over candidates_sorted; calls = the coin ids fetched so far
ExamineStubs(symbol, items, details, calls) ==
    IF items = <<>> THEN [exc |-> "", val |-> None, calls |-> calls]
    ELSE LET item == Head(items)
         IN  IF item.id = "" THEN ExamineStubs(symbol, Tail(items), details, calls)
             ELSE LET got == coingecko_get_coin(details[item.id])
                      calls2 == Append(calls, item.id)
                  IN  IF got.exc # "" THEN [exc |-> got.exc, val |-> None, calls |-> calls2]
                      ELSE IF got.val = None
                           THEN ExamineStubs(symbol, Tail(items), details, calls2)
                      ELSE LET info == CoinToInfo(symbol, item, got.val[1])
                           IN  IF info = None
                               THEN ExamineStubs(symbol, Tail(items), details, calls2)
                               ELSE [exc |-> "", val |-> info, calls |-> calls2]

\* resp = [search |-> what the search GET meets, details |-> per coin id, what
\* the coin GET meets]
find_token_on_coingecko(symbol, resp) ==
    LET found == coingecko_search_symbol(resp.search)
    IN  IF found.exc # "" THEN [exc |-> found.exc, val |-> None, calls |-> <<>>]
        ELSE IF found.val = <<>> THEN [exc |-> "", val |-> None, calls |-> <<>>]
        ELSE ExamineStubs(symbol, SortedByScore(found.val, symbol), resp.details, <<>>)

---------------------------------------------------------------------------
(* The world the scripts meet: ListedOn pages and CoinGecko answers *)

UrlOf(sym) == IF sym = "FOO" THEN "/en/ticker/FOO" ELSE "/en/ticker/BAR"

\* rows (symbol, ticker_url, source exchange) the exchange pages can show
Rows ==
    {[symbol |-> "FOO", url |-> UrlOf("FOO"), exch |-> "binance"],
     [symbol |-> "FOO", url |-> UrlOf("FOO"), exch |-> "gate"],
     [symbol |-> "BAR", url |-> UrlOf("BAR"), exch |-> "mxc"]}

RowSeqs == SeqsUpTo(Rows, MaxRows)

\* listings a ticker page can give (<<>>: the fetch failed or the page has no table)
TickerPages(url) ==
    IF url = UrlOf("FOO")
    THEN {<<>>,
          <<ExchangeListing("binance", Today - 10), ExchangeListing("gate", Today - 12)>>}
    ELSE {<<ExchangeListing("gate", Today - 8), ExchangeListing("mxc", Today - 7),
            ExchangeListing("uniswap", Today - 30)>>,
          <<ExchangeListing("mxc", Today - 3), ExchangeListing("gate", Today - 2)>>,
          <<ExchangeListing("binance", Today - 10)>>}

\* the eligibility check's ticker pages: every listing sequence over the
\* boundary ages, on two target exchanges and one that is no target
BoundaryAges == {0 - 1, MIN_AGE_DAYS - 1, MIN_AGE_DAYS, MAX_AGE_DAYS, MAX_AGE_DAYS + 1}

WideListings ==
    {ExchangeListing(e, Today - a) : e \in {"binance", "gate", "uniswap"}, a \in BoundaryAges}

WideTickerPages(url) == SeqsUpTo(WideListings, MaxListings)

\* CoinGecko coins (the fields the scripts read)
Coin(id, sym, name, platforms, mcap, vol, tickers) ==
    [id |-> id, symbol |-> sym, name |-> name, platforms |-> platforms,
     mcap |-> mcap, vol |-> vol, tickers |-> tickers,
     asset_platform_id |-> "", contract_address |-> ""]

Plat(name, addr) == [name |-> name, addr |-> addr]

Market(name, identifier) == [name |-> name, identifier |-> identifier]

ThreeVenues == <<Market("Binance", "binance"), Market("Gate.io", "gate"), Market("KuCoin", "kucoin")>>
TwoVenues == <<Market("Binance", "binance"), Market("Uniswap V3", "uniswap_v3"), Market("Huobi", "huobi")>>

\* foo as first seen: on Ethereum only
FooV1 == Coin("foo", "foo", "Foo", <<Plat("ethereum", "0xAA")>>, Some(5000000), Some(10), ThreeVenues)
\* foo later: also bridged to BNB chain
FooV2 == Coin("foo", "foo", "Foo", <<Plat("ethereum", "0xAA"), Plat("binance-smart-chain", "0xBB")>>,
              Some(5000000), Some(10), ThreeVenues)
\* another listing of the same contract under its own id
FooAlt == Coin("foo-alt", "foo", "Foo Alt", <<Plat("ethereum", "0xaa")>>, Some(MIN_MCAP_USD), None, TwoVenues)
Bar == Coin("bar", "bar", "Bar", <<Plat("polygon-pos", "0xCC"), Plat("solana", "So1")>>,
            Some(MAX_MCAP_USD), Some(0), ThreeVenues)

CoinIds == {"foo", "foo-alt", "bar"}

Stub(id, sym, name, rank) == [id |-> id, symbol |-> sym, name |-> name, market_cap_rank |-> rank]

\* what the search GET for a symbol can meet
SearchOutcomes(symbol) ==
    IF symbol = "FOO"
    THEN {HttpDown, HttpStatus(429), HttpOK([coins |-> <<>>]),
          HttpOK([coins |-> <<Stub("foo", "foo", "Foo", Some(300))>>]),
          HttpOK([coins |-> <<Stub("foo-alt", "FOO", "Foo Alt", None),
                              Stub("foo", "foo", "Foo", Some(300))>>]),
          HttpOK([coins |-> <<Stub("foo", "foo", "Foo", Some(300)),
                              Stub("foo-alt", "FOO", "Foo Alt", Some(200))>>])}
    ELSE {HttpDown, HttpBadJson, HttpOK([coins |-> <<Stub("bar", "bar", "Bar", Some(90))>>])}

\* what the coin GET for an id can meet
DetailOutcomes(id) ==
    CASE id = "foo" -> {HttpDown, HttpOK(FooV1), HttpOK(FooV2)}
      [] id = "foo-alt" -> {HttpStatus(429), HttpOK(FooAlt)}
      [] OTHER -> {HttpDown, HttpOK(Bar)}

Responses(symbol) ==
    {[search |-> s, details |-> d] :
        s \in SearchOutcomes(symbol),
        d \in {f \in [CoinIds -> UNION {DetailOutcomes(id) : id \in CoinIds}] :
                  \A id \in CoinIds : f[id] \in DetailOutcomes(id)}}

NoResp == [search |-> HttpDown, details |-> <<>>]

OneRowSeqs == {<<r>> : r \in Rows}

FooRowSeqs == {<<r>> : r \in {q \in Rows : q.symbol = "FOO"}}

\* the resolver check's coins: every combination of the boundary market caps
\* with the platform, volume and venue cases
WidePlatforms ==
    {<<>>,
     <<Plat("polygon-pos", "0xCC")>>,
     <<Plat("ethereum", "")>>,
     <<Plat("ethereum", "0xAA")>>,
     <<Plat("solana", "So1"), Plat("bnb-smart-chain", "0xBB")>>}

WideMcaps ==
    {None, Some(MIN_MCAP_USD - 1), Some(MIN_MCAP_USD), Some(MAX_MCAP_USD), Some(MAX_MCAP_USD + 1)}

WideCoins ==
    {Coin("foo", "foo", "Foo", pl, m, v, t) :
        pl \in WidePlatforms, m \in WideMcaps, v \in {None, Some(0)},
        t \in {<<>>, TwoVenues, ThreeVenues}}

WideDetailOutcomes(id) == {HttpDown} \cup {HttpOK(c) : c \in WideCoins}

WideResponses(symbol) ==
    {[search |-> HttpOK([coins |-> <<Stub("foo", "foo", "Foo", Some(300))>>]),
      details |-> [id \in CoinIds |-> o]] : o \in WideDetailOutcomes("foo")}

---------------------------------------------------------------------------
(* update_token_map_from_listedon.py: token_map.json *)

load_token_map_lenient(f) ==
    IF f.kind = "list" THEN Ret(f.data) ELSE Ret(<<>>)

load_token_map(f) ==
    IF f.kind = "absent" THEN Ret(<<>>)
    ELSE IF f.kind \in {"empty", "garbage", "partial"} THEN Raise("JSONDecodeError")
    ELSE IF f.kind # "list" THEN Raise("RuntimeError")
    ELSE Ret(f.data)

\* the identity key main() compares: (chain.lower(), address.lower())
KeyOfRaw(chain, address) == <<chain, address>>

KeyOf(chain, address) == <<Lower(chain), Lower(address)>>

ExistingIndexEmpty(tk) == [ids |-> {}, keys |-> {}]

\* existing_ids and existing_chain_addr as built from the loaded list
ExistingIndex(tk) ==
    [ids |-> {Lower(GetOr(t, "coingecko_id")) :
                 t \in {u \in SeqRange(tk) : GetOr(u, "coingecko_id") # ""}},
     keys |-> {KeyOf(GetOr(t, "chain"), GetOr(t, "address")) :
                 t \in {u \in SeqRange(tk) : GetOr(u, "chain") # "" /\ GetOr(u, "address") # ""}}]

token_entry(info, cand) ==
    [symbol |-> info.symbol,
     name |-> info.name,
     chain |-> info.chain,
     address |-> info.address,
     coingecko_id |-> info.coingecko_id,
     active |-> TRUE,
     listedon_first_listing_date |-> first_listing_date(cand),
     listedon_exchanges |-> target_exchanges(cand),
     listedon_url |-> cand.ticker_url]

\* main(), step 6, the checks on one info: is it skipped?
SkipByKeyOnly(info, ids, keys) ==
    KeyOf(info.chain, info.address) \in keys

SkipInfo(info, ids, keys) ==
    \/ Lower(info.coingecko_id) \in ids
    \/ KeyOf(info.chain, info.address) \in keys

RECURSIVE GroupByUrl(_, _)
\* main(), step 2: candidates_by_url, in order of first appearance
GroupByUrl(rows, acc) ==
    IF rows = <<>> THEN acc
    ELSE LET r == Head(rows)
             at == {k \in DOMAIN acc : acc[k].ticker_url = r.url}
         IN  IF at = {}
             THEN GroupByUrl(Tail(rows),
                     Append(acc, [TickerCandidate(r.symbol, r.url) EXCEPT !.discovered_on = {r.exch}]))
             ELSE GroupByUrl(Tail(rows),
                     [acc EXCEPT ![Min(at)].discovered_on = @ \cup {r.exch}])

\* the resolved tuples of a run: per candidate, the lookup's result
ResolvedSet(units) == [k \in DOMAIN units |-> <<units[k].symbol, units[k].info>>]

RanToEnd(p, at) == p = "listedon" /\ at \in {"done", "nothing"}

NoPrevRun == [ranToEnd |-> FALSE, resolved |-> <<>>, added |-> FALSE]

Ended == pc \in {"idle", "nothing", "done", "aborted", "crashed"}

\* what every run start does: a fresh process, and the history of the last run
BeginRun(p, maxRuns) ==
    /\ Ended
    /\ runs < maxRuns
    /\ runs' = runs + 1
    /\ prog' = p
    /\ file0' = file
    /\ prevRun' = IF RanToEnd(prog, pc)
                  THEN [ranToEnd |-> TRUE, resolved |-> ResolvedSet(resolved),
                        added |-> added # <<>>]
                  ELSE NoPrevRun
    /\ resolved' = <<>>
    /\ lastResp' = NoResp
    /\ filtered_by_age' = <<>>
    /\ filtered_candidates' = <<>>
    /\ tokens' = <<>>
    /\ existing_ids' = {}
    /\ existing_chain_addr' = {}
    /\ added' = <<>>
    /\ tokens_by_key' = <<>>
    /\ written' = 0
    /\ i' = 1
    /\ UNCHANGED file

\* main(), steps 1-2: scrape the exchange pages, group the rows by ticker url
StartListedOn(rowSeqs, maxRuns) ==
    /\ BeginRun("listedon", maxRuns)
    /\ err' = ""
    /\ scan_candidates' = <<>>
    /\ \E rows \in rowSeqs :
          IF rows = <<>>
          THEN /\ pc' = "nothing"
               /\ candidates_by_url' = <<>>
          ELSE /\ pc' = "tickers"
               /\ candidates_by_url' = GroupByUrl(rows, <<>>)

\* main(), step 3, one iteration: fetch the ticker page, filter by age
TickerStep(wide) ==
    /\ prog = "listedon"
    /\ pc = "tickers"
    /\ i <= Len(candidates_by_url)
    /\ \E ls \in (IF wide THEN WideTickerPages(candidates_by_url[i].ticker_url)
                         ELSE TickerPages(candidates_by_url[i].ticker_url)) :
          LET cand == [candidates_by_url[i] EXCEPT !.listings = ls]
          IN  /\ candidates_by_url' = [candidates_by_url EXCEPT ![i] = cand]
              /\ filtered_by_age' =
                    IF cand.listings = <<>> THEN filtered_by_age
                    ELSE IF ~listing_age_ok(cand, Today) THEN filtered_by_age
                    ELSE Append(filtered_by_age, cand)
    /\ i' = i + 1
    /\ UNCHANGED <<file, prog, pc, err, runs, filtered_candidates, tokens, existing_ids,
                   existing_chain_addr, added, scan_candidates, tokens_by_key, written, file0,
                   resolved, prevRun, lastResp>>

EnoughExchanges(cand) == Cardinality(target_exchanges(cand)) >= MIN_TARGET_EXCHANGES

\* main(), step 4: keep the candidates on >= 2 target exchanges; return if none
FilterExchanges ==
    /\ prog = "listedon"
    /\ pc = "tickers"
    /\ i > Len(candidates_by_url)
    /\ filtered_candidates' = SelectSeq(filtered_by_age, EnoughExchanges)
    /\ pc' = IF filtered_candidates' = <<>> THEN "nothing" ELSE "load"
    /\ UNCHANGED <<file, prog, err, runs, candidates_by_url, filtered_by_age, i, tokens,
                   existing_ids, existing_chain_addr, added, written, file0, resolved,
                   prevRun,
                   scan_candidates, tokens_by_key, lastResp>>

\* main(), step 5: load token_map.json and index it
LoadTokenMap ==
    /\ prog = "listedon"
    /\ pc = "load"
    /\ LET r == load_token_map(file)
       IN  IF r.exc # ""
           THEN /\ pc' = "aborted"
                /\ err' = r.exc
                /\ UNCHANGED <<tokens, existing_ids, existing_chain_addr, i>>
           ELSE IF \E k \in DOMAIN r.val : ~IsObject(r.val[k])
           THEN \* t.get on something that is no dict
                /\ pc' = "aborted"
                /\ err' = "AttributeError"
                /\ tokens' = r.val
                /\ UNCHANGED <<existing_ids, existing_chain_addr, i>>
           ELSE /\ pc' = "reconcile"
                /\ err' = ""
                /\ tokens' = r.val
                /\ existing_ids' = ExistingIndex(r.val).ids
                /\ existing_chain_addr' = ExistingIndex(r.val).keys
                /\ i' = 1
    /\ UNCHANGED <<file, prog, runs, candidates_by_url, filtered_by_age, filtered_candidates,
                   added, scan_candidates, tokens_by_key, written, file0, resolved, prevRun, lastResp>>

\* some GET of this unit met a transport failure or a non-200 answer
UnitFailed(resp, calls) ==
    HttpFailed(resp.search) \/ \E k \in DOMAIN calls : HttpFailed(resp.details[calls[k]])

\* main(), step 6, one iteration: look the candidate up, add it unless known
ProcessCandidate(wide) ==
    /\ prog = "listedon"
    /\ pc = "reconcile"
    /\ i <= Len(filtered_candidates)
    /\ \E resp \in (IF wide THEN WideResponses(filtered_candidates[i].symbol)
                           ELSE Responses(filtered_candidates[i].symbol)) :
          LET cand == filtered_candidates[i]
              r == find_token_on_coingecko(cand.symbol, resp)
              unit == [symbol |-> cand.symbol, failed |-> UnitFailed(resp, r.calls),
                       info |-> r.val, appended |-> FALSE]
          IN  /\ lastResp' = IF wide THEN resp ELSE NoResp
              /\ IF r.exc # ""
                 THEN /\ pc' = "aborted"
                      /\ err' = r.exc
                      /\ resolved' = Append(resolved, unit)
                      /\ UNCHANGED <<i, tokens, existing_ids, existing_chain_addr, added>>
                 ELSE IF r.val = None
                 THEN /\ resolved' = Append(resolved, unit)
                      /\ i' = i + 1
                      /\ UNCHANGED <<pc, err, tokens, existing_ids, existing_chain_addr, added>>
                 ELSE IF SkipInfo(r.val[1], existing_ids, existing_chain_addr)
                 THEN /\ resolved' = Append(resolved, unit)
                      /\ i' = i + 1
                      /\ UNCHANGED <<pc, err, tokens, existing_ids, existing_chain_addr, added>>
                 ELSE /\ resolved' = Append(resolved, [unit EXCEPT !.appended = TRUE])
                      /\ tokens' = Append(tokens, token_entry(r.val[1], cand))
                      /\ added' = Append(added, token_entry(r.val[1], cand))
                      /\ existing_ids' = existing_ids \cup {Lower(r.val[1].coingecko_id)}
                      /\ existing_chain_addr' =
                            existing_chain_addr \cup {KeyOf(r.val[1].chain, r.val[1].address)}
                      /\ i' = i + 1
                      /\ UNCHANGED <<pc, err>>
    /\ UNCHANGED <<file, prog, runs, candidates_by_url, filtered_by_age, filtered_candidates,
                   written, file0, prevRun,
                   scan_candidates, tokens_by_key>>

\* main(), step 7: save if anything was added; save_token_map opens the file
\* for writing, which truncates it
FinishReconcile ==
    /\ prog = "listedon"
    /\ pc = "reconcile"
    /\ i > Len(filtered_candidates)
    /\ IF added # <<>>
       THEN /\ pc' = "saving"
            /\ file' = EmptyFile
            /\ written' = 0
       ELSE /\ pc' = "done"
            /\ UNCHANGED <<file, written>>
    /\ UNCHANGED <<prog, err, runs, candidates_by_url, filtered_by_age, filtered_candidates,
                   i, tokens, existing_ids, existing_chain_addr, added, file0, resolved,
                   prevRun,
                   scan_candidates, tokens_by_key, lastResp>>

\* json.dump streams the list into the open file, entry by entry
SaveWrite ==
    /\ pc = "saving"
    /\ written < Len(tokens)
    /\ written' = written + 1
    /\ file' = PartialFile(SubSeq(tokens, 1, written + 1))
    /\ UNCHANGED <<prog, pc, err, runs, candidates_by_url, filtered_by_age,
                   filtered_candidates, i, tokens, existing_ids, existing_chain_addr, added,
                   file0, resolved, prevRun,
                   scan_candidates, tokens_by_key, lastResp>>

\* the closing bracket is written and the file is closed
SaveClose ==
    /\ pc = "saving"
    /\ written = Len(tokens)
    /\ file' = ListFile(tokens)
    /\ pc' = "done"
    /\ UNCHANGED <<prog, err, runs, candidates_by_url, filtered_by_age, filtered_candidates,
                   i, tokens, existing_ids, existing_chain_addr, added, written, file0,
                   resolved, prevRun,
                   scan_candidates, tokens_by_key, lastResp>>

\* the process dies while the file is open for writing
Crash ==
    /\ pc = "saving"
    /\ pc' = "crashed"
    /\ err' = "killed"
    /\ UNCHANGED <<file, prog, runs, candidates_by_url, filtered_by_age, filtered_candidates,
                   i, tokens, existing_ids, existing_chain_addr, added, written, file0,
                   resolved, prevRun,
                   scan_candidates, tokens_by_key, lastResp>>

---------------------------------------------------------------------------
(* scanner.py *)

\* `needle in hay` on the lowercased market names and identifiers of the model
Contains(hay, needle) ==
    <<hay, needle>> \in {<<"binance", "binance">>, <<"gate.io", "gate.io">>,
                         <<"gate.io", "gate">>, <<"gate", "gate">>,
                         <<"kucoin", "kucoin">>, <<"huobi", "huobi">>}

\* order of the strings the final sort compares (Python compares code points)
StrOrd(str) ==
    CASE str = "BAR" -> 1
      [] str = "FOO" -> 2
      [] str = "bnb" -> 11
      [] str = "ethereum" -> 12
      [] str = "solana" -> 13
      [] OTHER -> 0

\* requests.get raises on a transport failure; anything but 200 raises RuntimeError
cg_request(o) ==
    IF o.raised THEN Raise("RequestException")
    ELSE IF o.status # 200 THEN Raise("RuntimeError")
    ELSE IF o.json = None THEN Raise("JSONDecodeError")
    ELSE Ret(o.json[1])

normalize_symbol(sym) == Upper(sym)

detect_exchanges_from_tickers(tickers) ==
    {ex \in SCANNER_TARGET_EXCHANGES :
        \E k \in DOMAIN tickers : \E sub \in EXCHANGE_MATCH_SUBSTRINGS(ex) :
            \/ Contains(Lower(tickers[k].name), sub)
            \/ Contains(Lower(tickers[k].identifier), sub)}

RECURSIVE MarketRows(_, _)
\* the inner loop over one page: [rows kept, stop]
MarketRows(data, acc) ==
    IF data = <<>> THEN [rows |-> acc, stop |-> FALSE]
    ELSE LET coin == Head(data)
         IN  IF coin.market_cap = None THEN MarketRows(Tail(data), acc)
             ELSE IF coin.market_cap[1] < MIN_MCAP THEN [rows |-> acc, stop |-> TRUE]
             ELSE IF coin.market_cap[1] <= MAX_MCAP
                  THEN MarketRows(Tail(data),
                          Append(acc, [id |-> coin.id, symbol |-> coin.symbol,
                                       name |-> coin.name, market_cap |-> coin.market_cap[1]]))
                  ELSE MarketRows(Tail(data), acc)

RECURSIVE MarketPages(_, _, _)
\* the loop over the pages; a page the world does not list is an empty one
MarketPages(pages, page, acc) ==
    IF page > MAX_PAGES THEN Ret(acc)
    ELSE LET got == cg_request(IF page <= Len(pages) THEN pages[page] ELSE HttpOK(<<>>))
         IN  IF got.exc # "" THEN got
             ELSE IF got.val = <<>> THEN Ret(acc)
             ELSE LET r == MarketRows(got.val, acc)
                  IN  IF r.stop THEN Ret(r.rows) ELSE MarketPages(pages, page + 1, r.rows)

fetch_markets_candidates(pages) == MarketPages(pages, 1, <<>>)

fetch_coin_details(o) == cg_request(o)

RECURSIVE PlatformPairs(_)
\* the loop of extract_platforms over coin["platforms"]
PlatformPairs(platforms) ==
    IF platforms = <<>> THEN <<>>
    ELSE LET p == Head(platforms)
             chain == SCANNER_PLATFORM_TO_CHAIN(p.name)
             rest == PlatformPairs(Tail(platforms))
         IN  IF p.addr = "" \/ chain = None \/ chain[1] \notin SCANNER_ALLOWED_CHAINS
             THEN rest
             ELSE <<[chain |-> chain[1], addr |-> p.addr]>> \o rest

extract_platforms(coin) ==
    LET res == PlatformPairs(coin.platforms)
        chain == SCANNER_PLATFORM_TO_CHAIN(coin.asset_platform_id)
    IN  IF res # <<>> THEN res
        ELSE IF coin.asset_platform_id # "" /\ coin.contract_address # ""
                /\ chain # None /\ chain[1] \in SCANNER_ALLOWED_CHAINS
             THEN <<[chain |-> chain[1], addr |-> coin.contract_address]>>
             ELSE <<>>

make_token_entry(symbol, name, chain, address, coingecko_id, active) ==
    [symbol |-> normalize_symbol(symbol), name |-> name, chain |-> chain,
     address |-> address, coingecko_id |-> coingecko_id, active |-> active]

\* key = (chain, addr.lower())
ScannerKey(chain, addr) == <<chain, Lower(addr)>>

RECURSIVE Upsert(_, _, _, _)
\* the loop over the platforms of one coin: insert, or replace on a larger mcap
Upsert(dict, platforms, coin, c) ==
    IF platforms = <<>> THEN dict
    ELSE LET p == Head(platforms)
             key == ScannerKey(p.chain, p.addr)
             entry == make_token_entry(coin.symbol, coin.name, p.chain, p.addr, c.id, TRUE)
             slot == [key |-> key, entry |-> entry, market_cap |-> c.market_cap]
             at == {k \in DOMAIN dict : dict[k].key = key}
             dict2 == IF at = {} THEN Append(dict, slot)
                      ELSE IF c.market_cap > dict[Min(at)].market_cap
                           THEN [dict EXCEPT ![Min(at)] = slot]
                           ELSE dict
         IN  Upsert(dict2, Tail(platforms), coin, c)

EntryLess(a, b) ==
    TupleLess(<<StrOrd(a.symbol), StrOrd(a.chain)>>, <<StrOrd(b.symbol), StrOrd(b.chain)>>)

RECURSIVE SortEntries(_)
\* result.sort(key=lambda x: (x["symbol"], x["chain"])): stable
SortEntries(entries) ==
    IF entries = <<>> THEN <<>>
    ELSE LET n == Len(entries)
             x == entries[n]
             front == SortEntries(SubSeq(entries, 1, n - 1))
             keep == {k \in DOMAIN front : ~EntryLess(x, front[k])}
             pos == IF keep = {} THEN 0 ELSE CHOOSE m \in keep : \A q \in keep : q <= m
         IN  SubSeq(front, 1, pos) \o <<x>> \o SubSeq(front, pos + 1, Len(front))

\* a coin passes scan_tokens' filters
ScanAccepts(coin) ==
    /\ Cardinality(detect_exchanges_from_tickers(coin.tickers) \cap SCANNER_TARGET_EXCHANGES)
          >= MIN_TARGET_VENUES
    /\ extract_platforms(coin) # <<>>

\* what the markets pages can give
MarketRow(id, sym, name, mcap) == [id |-> id, symbol |-> sym, name |-> name, market_cap |-> mcap]

MarketsOutcomes ==
    {<<HttpOK(<<MarketRow("bar", "bar", "Bar", Some(MAX_MCAP)),
                MarketRow("foo", "foo", "Foo", Some(5000000))>>)>>,
     <<HttpOK(<<MarketRow("bar", "bar", "Bar", Some(MAX_MCAP + 1)),
                MarketRow("foo", "foo", "Foo", Some(5000000)),
                MarketRow("foo-alt", "foo", "Foo Alt", Some(MIN_MCAP))>>),
       HttpOK(<<MarketRow("new", "new", "New", Some(MIN_MCAP - 1)),
                MarketRow("bar", "bar", "Bar", Some(MIN_MCAP))>>)>>,
     <<HttpOK(<<MarketRow("foo-alt", "foo", "Foo Alt", Some(6000000)),
                MarketRow("foo", "foo", "Foo", Some(5000000))>>)>>,
     <<HttpStatus(429)>>,
     <<HttpOK(<<MarketRow("foo", "foo", "Foo", Some(5000000))>>), HttpDown>>,
     <<HttpOK(<<>>)>>}

\* scan_tokens: fetch the markets candidates
StartScanner(maxRuns) ==
    /\ BeginRun("scanner", maxRuns)
    /\ candidates_by_url' = <<>>
    /\ \E pages \in MarketsOutcomes :
          LET r == fetch_markets_candidates(pages)
          IN  IF r.exc # ""
              THEN /\ pc' = "aborted"
                   /\ err' = r.exc
                   /\ scan_candidates' = <<>>
              ELSE /\ pc' = "scan"
                   /\ err' = ""
                   /\ scan_candidates' = r.val

\* scan_tokens, one iteration of the loop over the candidates
ScanStep(wide) ==
    /\ prog = "scanner"
    /\ pc = "scan"
    /\ i <= Len(scan_candidates)
    /\ \E o \in (IF wide THEN WideDetailOutcomes(scan_candidates[i].id)
                        ELSE DetailOutcomes(scan_candidates[i].id)) :
          LET c == scan_candidates[i]
              got == fetch_coin_details(o)
              unit == [symbol |-> c.id, failed |-> HttpFailed(o), info |-> None,
                       appended |-> FALSE]
          IN  /\ lastResp' = IF wide THEN [search |-> o, details |-> <<>>] ELSE NoResp
              /\ IF got.exc # ""
                 THEN \* except Exception: continue
                      /\ resolved' = Append(resolved, unit)
                      /\ UNCHANGED tokens_by_key
                 ELSE IF ~ScanAccepts(got.val)
                 THEN /\ resolved' = Append(resolved, unit)
                      /\ UNCHANGED tokens_by_key
                 ELSE /\ resolved' = Append(resolved, [unit EXCEPT !.appended = TRUE])
                      /\ tokens_by_key' =
                            Upsert(tokens_by_key, extract_platforms(got.val), got.val, c)
    /\ i' = i + 1
    /\ UNCHANGED <<file, prog, pc, err, runs, candidates_by_url, filtered_by_age,
                   filtered_candidates, tokens, existing_ids, existing_chain_addr, added,
                   scan_candidates, written, file0, prevRun>>

\* scan_tokens returns the sorted values; main() opens token_map.json for
\* writing (write_text), which truncates it
ScanFinish ==
    /\ prog = "scanner"
    /\ pc = "scan"
    /\ i > Len(scan_candidates)
    /\ tokens' = SortEntries([k \in DOMAIN tokens_by_key |-> tokens_by_key[k].entry])
    /\ pc' = "saving"
    /\ file' = EmptyFile
    /\ written' = 0
    /\ UNCHANGED <<prog, err, runs, candidates_by_url, filtered_by_age, filtered_candidates,
                   i, existing_ids, existing_chain_addr, added, scan_candidates,
                   tokens_by_key, file0, resolved, prevRun, lastResp>>

---------------------------------------------------------------------------
(* Specifications *)

InitFiles == {Absent, EmptyFile, Garbage, NonList, ListFile(<<>>), ListFile(<<NonObject>>)}

Init ==
    /\ file \in InitFiles
    /\ prog = "none"
    /\ pc = "idle"
    /\ err = ""
    /\ runs = 0
    /\ candidates_by_url = <<>>
    /\ filtered_by_age = <<>>
    /\ filtered_candidates = <<>>
    /\ i = 1
    /\ tokens = <<>>
    /\ existing_ids = {}
    /\ existing_chain_addr = {}
    /\ added = <<>>
    /\ scan_candidates = <<>>
    /\ tokens_by_key = <<>>
    /\ written = 0
    /\ file0 = file
    /\ resolved = <<>>
    /\ prevRun = NoPrevRun
    /\ lastResp = NoResp

Next ==
    \/ StartListedOn(RowSeqs, MaxRuns)
    \/ TickerStep(FALSE)
    \/ FilterExchanges
    \/ LoadTokenMap
    \/ ProcessCandidate(FALSE)
    \/ FinishReconcile
    \/ StartScanner(MaxRuns)
    \/ ScanStep(FALSE)
    \/ ScanFinish
    \/ SaveWrite
    \/ SaveClose
    \/ Crash

Spec == Init /\ [][Next]_vars

\* One run of main() up to the end of step 4, over every ticker page of the
\* boundary set.
NextFilter ==
    \/ StartListedOn(OneRowSeqs, 1)
    \/ TickerStep(TRUE)
    \/ FilterExchanges

SpecFilter == Init /\ [][NextFilter]_vars

\* One run of either script, the coin of each lookup drawn from the boundary set.
NextResolve ==
    \/ StartListedOn(FooRowSeqs, 1)
    \/ TickerStep(FALSE)
    \/ FilterExchanges
    \/ LoadTokenMap
    \/ ProcessCandidate(TRUE)
    \/ FinishReconcile
    \/ StartScanner(1)
    \/ ScanStep(TRUE)
    \/ ScanFinish
    \/ SaveWrite
    \/ SaveClose
    \/ Crash

SpecResolve == Init /\ [][NextResolve]_vars

\* One call of find_token_on_coingecko, on its own: the search answers with up
\* to three stubs of distinct ids, each with a matching or a foreign symbol and
\* a rank that is missing, ordinary, or above the score given to a missing rank.
SelectIdSeqs ==
    {q \in SeqsUpTo(CoinIds, Cardinality(CoinIds)) :
        \A a, b \in DOMAIN q : a # b => q[a] # q[b]}

SelectRanks == {None, Some(300), Some(NO_RANK_SCORE + 1)}

SelectVariants == {[symbol |-> sym, rank |-> r] : sym \in {"FOO", "foox"}, r \in SelectRanks}

SelectStubSeqs ==
    UNION {{[k \in DOMAIN ids |-> Stub(ids[k], f[k].symbol, "Foo", f[k].rank)] :
               f \in [DOMAIN ids -> SelectVariants]} : ids \in SelectIdSeqs}

\* a coin the filters accept, and one they reject (no platform)
SelectCoin(id, good) ==
    Coin(id, "foo", "Foo", IF good THEN <<Plat("ethereum", "0xAA")>> ELSE <<>>,
         Some(5000000), Some(10), ThreeVenues)

SelectDetailOutcomes(id) == {HttpDown, HttpOK(SelectCoin(id, TRUE)), HttpOK(SelectCoin(id, FALSE))}

SelectResponses ==
    {[search |-> s, details |-> d] :
        s \in {HttpDown} \cup {HttpOK([coins |-> q]) : q \in SelectStubSeqs},
        d \in {f \in [CoinIds -> UNION {SelectDetailOutcomes(id) : id \in CoinIds}] :
                  \A id \in CoinIds : f[id] \in SelectDetailOutcomes(id)}}

\* find_token_on_coingecko("FOO"): the answers it met, its result and the coin
\* ids it fetched
Lookup ==
    /\ prog = "none"
    /\ resolved = <<>>
    /\ \E resp \in SelectResponses :
          LET r == find_token_on_coingecko("FOO", resp)
          IN  /\ lastResp' = resp
              /\ resolved' = <<[symbol |-> "FOO", failed |-> UnitFailed(resp, r.calls),
                                info |-> r.val, appended |-> FALSE, calls |-> r.calls]>>
    /\ UNCHANGED <<file, prog, pc, err, runs, candidates_by_url, filtered_by_age,
                   filtered_candidates, i, tokens, existing_ids, existing_chain_addr, added,
                   scan_candidates, tokens_by_key, written, file0, prevRun>>

SpecSelect == Init /\ [][Lookup]_vars

\* One call of choose_chain_and_address, on its own: a platforms mapping of up
\* to MaxPlatforms distinct platform names, in iteration order, each with its
\* own address or an empty one.
PlatformNames == {"ethereum", "Ethereum", "binance-smart-chain", "solana", "polygon-pos"}

AddressOn(name) ==
    CASE name = "ethereum" -> "0xAA"
      [] name = "Ethereum" -> "0xaa"
      [] name = "binance-smart-chain" -> "0xBB"
      [] name = "solana" -> "So1"
      [] OTHER -> "0xCC"

PlatformNameSeqs ==
    {q \in SeqsUpTo(PlatformNames, MaxPlatforms) :
        \A a, b \in DOMAIN q : a # b => q[a] # q[b]}

PlatformMappings ==
    UNION {{[k \in DOMAIN names |-> Plat(names[k], IF f[k] THEN AddressOn(names[k]) ELSE "")] :
               f \in [DOMAIN names -> BOOLEAN]} : names \in PlatformNameSeqs}

\* choose_chain_and_address(platforms): lastResp keeps the mapping, resolved
\* the result
ChooseChain ==
    /\ prog = "none"
    /\ resolved = <<>>
    /\ \E platforms \in PlatformMappings :
          /\ lastResp' = [search |-> HttpDown, details |-> <<>>, platforms |-> platforms]
          /\ resolved' = <<[symbol |-> "", failed |-> FALSE,
                            info |-> choose_chain_and_address(platforms), appended |-> FALSE]>>
    /\ UNCHANGED <<file, prog, pc, err, runs, candidates_by_url, filtered_by_age,
                   filtered_candidates, i, tokens, existing_ids, existing_chain_addr, added,
                   scan_candidates, tokens_by_key, written, file0, prevRun>>

SpecChain == Init /\ [][ChooseChain]_vars

---------------------------------------------------------------------------
(* Properties *)

Last(q) == q[Len(q)]

AllObjects(tk) == \A k \in DOMAIN tk : IsObject(tk[k])

\* the identity key of a registry entry: (chain, lowercased address)
IdentityKey(t) == <<t.chain, Lower(t.address)>>

NoSharedKey(tk) ==
    \A a, b \in DOMAIN tk : a # b => IdentityKey(tk[a]) # IdentityKey(tk[b])

RECURSIVE IsSubsequence(_, _)
\* p's elements all occur in q, in p's order
IsSubsequence(p, q) ==
    IF p = <<>> THEN TRUE
    ELSE IF q = <<>> THEN FALSE
    ELSE IF Head(p) = Head(q) THEN IsSubsequence(Tail(p), Tail(q))
    ELSE IsSubsequence(p, Tail(q))

\* the registry entries a file holds (a file that does not parse holds none)
FileEntries(f) == IF f.kind = "list" THEN f.data ELSE <<>>

ListedOnPastLoad == prog = "listedon" /\ pc \in {"reconcile", "saving", "done", "crashed"}

ScannerPastScan == prog = "scanner" /\ pc \in {"saving", "done", "crashed"}

C2_Idempotent ==
    (/\ RanToEnd(prog, pc)
     /\ prevRun.ranToEnd
     /\ ResolvedSet(resolved) = prevRun.resolved)
    => (added = <<>> /\ file = file0)

\* the second of two runs with the same resolved tuples, the first of which
\* added an entry
C2_Witness ==
    /\ RanToEnd(prog, pc)
    /\ prevRun.ranToEnd
    /\ ResolvedSet(resolved) = prevRun.resolved
    /\ prevRun.added
    /\ file.kind = "list"

RunOver == prog # "none" /\ Ended

\* C3: when a run is over, every entry persisted before it is still persisted,
\* unchanged and in the same relative order.
C3_NeverRemovesOrEdits ==
    (RunOver /\ file0.kind = "list" /\ file0.data # <<>> /\ AllObjects(file0.data))
    => IsSubsequence(file0.data, FileEntries(file))

\* C4: after a crash during the save, the file holds the complete previous
\* registry or the complete new one.
C4_AllOrNothing ==
    pc = "crashed" => (file = file0 \/ file = ListFile(tokens))

\* C5: main() on an absent or an empty token_map.json starts from the empty
\* registry and does not fail.
C5_LoadTolerant ==
    (prog = "listedon" /\ file0.kind \in {"absent", "empty"})
    => /\ pc # "aborted"
       /\ (pc = "reconcile" /\ resolved = <<>>) => tokens = <<>>

\* content that does not parse, or parses to something other than a list of objects
\* (a file of zero bytes is the subject of C5 and is left out here)
Malformed(f) ==
    \/ f.kind \in {"garbage", "nonlist", "partial"}
    \/ f.kind = "list" /\ ~AllObjects(f.data)

LoadErrors == {"JSONDecodeError", "RuntimeError", "AttributeError"}

FilterDone == prog = "listedon" /\ pc \in {"load", "nothing"} /\ candidates_by_url # <<>>

Passed(c) == \E k \in DOMAIN filtered_candidates : filtered_candidates[k] = c

ListingsOf(c) == SeqRange(c.listings)

\* first_listed_at: the minimum listing date over all of the candidate's listings
FirstListedAt(c) == Min({l.listing_date : l \in ListingsOf(c)})

\* C7 as claimed: a candidate passes iff the age of its first listing is within
\* [MIN_AGE_DAYS, MAX_AGE_DAYS] and it is listed on at least 2 exchanges.
C7_FirstListingAge ==
    FilterDone =>
        \A k \in DOMAIN candidates_by_url :
            LET c == candidates_by_url[k]
            IN  Passed(c) <=>
                    /\ c.listings # <<>>
                    /\ MIN_AGE_DAYS <= Today - FirstListedAt(c)
                    /\ Today - FirstListedAt(c) <= MAX_AGE_DAYS
                    /\ Cardinality({l.exchange_slug : l \in ListingsOf(c)}) >= 2

\* C7 amended: a candidate passes iff some listing of it on a target exchange is
\* MIN_AGE_DAYS..MAX_AGE_DAYS days old (both inclusive) and its listings name at
\* least 2 distinct target exchanges; a candidate listed only in the future is
\* rejected, and the filter never fails.
C7_AnyTargetListingAge ==
    /\ FilterDone =>
          \A k \in DOMAIN candidates_by_url :
              LET c == candidates_by_url[k]
                  onTarget == {l \in ListingsOf(c) : l.exchange_slug \in TARGET_EXCHANGES}
              IN  /\ Passed(c) <=>
                        /\ \E l \in onTarget :
                              /\ Today - l.listing_date >= MIN_AGE_DAYS
                              /\ Today - l.listing_date <= MAX_AGE_DAYS
                        /\ Cardinality({l.exchange_slug : l \in onTarget}) >= 2
                  /\ (c.listings # <<>> /\ FirstListedAt(c) > Today) => ~Passed(c)
    /\ (prog = "listedon" /\ pc = "aborted") => err \in LoadErrors

\* a candidate that passes on a listing at the upper bound although its first
\* listing is older than the window
C7_Witness ==
    /\ FilterDone
    /\ \E k \in DOMAIN candidates_by_url :
          LET c == candidates_by_url[k]
          IN  /\ Passed(c)
              /\ Today - FirstListedAt(c) > MAX_AGE_DAYS
              /\ \E l \in ListingsOf(c) : Today - l.listing_date = MAX_AGE_DAYS

\* the coin the last unit's lookup fetched
ListedOnFetched ==
    /\ prog = "listedon"
    /\ resolved # <<>>
    /\ lastResp.details # <<>>
    /\ ~HttpFailed(lastResp.search)
    /\ ~HttpFailed(lastResp.details["foo"])

ScannerFetched ==
    /\ prog = "scanner"
    /\ resolved # <<>>
    /\ ~HttpFailed(lastResp.search)

HasSupportedAddress(coin) ==
    \E p \in SeqRange(coin.platforms) :
        /\ p.addr # ""
        /\ PLATFORM_TO_CHAIN(Lower(p.name)) # None
        /\ PLATFORM_TO_CHAIN(Lower(p.name))[1] \in ALLOWED_CHAINS

HasScannerAddress(coin) ==
    \/ \E p \in SeqRange(coin.platforms) :
          /\ p.addr # ""
          /\ SCANNER_PLATFORM_TO_CHAIN(p.name) # None
          /\ SCANNER_PLATFORM_TO_CHAIN(p.name)[1] \in SCANNER_ALLOWED_CHAINS
    \/ /\ coin.contract_address # ""
       /\ SCANNER_PLATFORM_TO_CHAIN(coin.asset_platform_id) # None

McapOutside(coin) ==
    \/ coin.mcap = None
    \/ coin.mcap[1] < MIN_MCAP_USD
    \/ coin.mcap[1] > MAX_MCAP_USD

\* the venues of the coin that are target venues
TargetVenues(coin) ==
    {ex \in SCANNER_TARGET_EXCHANGES :
        \E t \in SeqRange(coin.tickers) : \E sub \in EXCHANGE_MATCH_SUBSTRINGS(ex) :
            Contains(Lower(t.name), sub) \/ Contains(Lower(t.identifier), sub)}

\* C8 as claimed: find_token_on_coingecko rejects a fetched coin iff it has no
\* address on a supported chain, or its market cap is outside
\* [MIN_MCAP_USD, MAX_MCAP_USD], or fewer of its venues than the minimum are
\* target venues.
C8_RejectsOnVenues ==
    ListedOnFetched =>
        LET coin == lastResp.details["foo"].json[1]
        IN  (Last(resolved).info = None) <=>
                \/ ~HasSupportedAddress(coin)
                \/ McapOutside(coin)
                \/ Cardinality(TargetVenues(coin)) < MIN_TARGET_VENUES

\* C8 amended: find_token_on_coingecko rejects a fetched coin (of non-negative
\* volume) iff it has no address on a supported chain or its market cap is
\* missing or outside [MIN_MCAP_USD, MAX_MCAP_USD], both bounds inclusive; the
\* venues play no part there. scan_tokens rejects a fetched coin iff fewer than
\* 3 of its venues are target venues or it has no address on a supported chain.
C8_RejectRule ==
    /\ ListedOnFetched =>
          LET coin == lastResp.details["foo"].json[1]
          IN  (Last(resolved).info = None) <=> (~HasSupportedAddress(coin) \/ McapOutside(coin))
    /\ ScannerFetched =>
          LET coin == lastResp.search.json[1]
          IN  (~Last(resolved).appended) <=>
                  \/ Cardinality(TargetVenues(coin)) < MIN_TARGET_VENUES
                  \/ ~HasScannerAddress(coin)

\* a coin at the lower market-cap bound, none of whose venues is a target
\* venue, accepted by find_token_on_coingecko
C8_Witness ==
    /\ ListedOnFetched
    /\ Last(resolved).info # None
    /\ lastResp.details["foo"].json[1].mcap = Some(MIN_MCAP_USD)
    /\ TargetVenues(lastResp.details["foo"].json[1]) = {}

\* C9: a transport failure or a non-200 answer of the lookup of one symbol or
\* coin id never ends the run: the loop goes on to the next unit, every
\* candidate gets processed in order, and what the other units resolved is
\* added and, at the end of the run, persisted.
C9_LookupFailureSkips ==
    /\ (prog = "listedon" /\ pc = "aborted") => err \in LoadErrors
    /\ (prog = "scanner" /\ pc = "aborted") => resolved = <<>>
    /\ (prog = "listedon" /\ pc = "reconcile") => Len(resolved) = i - 1
    /\ (prog = "scanner" /\ pc = "scan") => Len(resolved) = i - 1
    /\ ListedOnPastLoad =>
          /\ pc # "reconcile" =>
                [k \in DOMAIN resolved |-> resolved[k].symbol]
                    = [k \in DOMAIN filtered_candidates |-> filtered_candidates[k].symbol]
          /\ \A k \in DOMAIN resolved :
                resolved[k].appended =>
                    \E t \in SeqRange(tokens) :
                        /\ t.coingecko_id = resolved[k].info[1].coingecko_id
                        /\ t.address = resolved[k].info[1].address
          /\ (pc = "done" /\ added # <<>>) => file = ListFile(tokens)
    /\ ScannerPastScan =>
          /\ [k \in DOMAIN resolved |-> resolved[k].symbol]
                = [k \in DOMAIN scan_candidates |-> scan_candidates[k].id]
          /\ (\E k \in DOMAIN resolved : resolved[k].appended) => tokens # <<>>
          /\ pc = "done" => file = ListFile(tokens)

\* a finished run whose first lookup failed and whose second candidate was
\* added and persisted
C9_Witness ==
    /\ prog = "listedon"
    /\ pc = "done"
    /\ Len(resolved) >= 2
    /\ resolved[1].failed
    /\ resolved[2].appended
    /\ file = ListFile(tokens)

\* one iteration of main()'s step 6 that had a resolved tuple to reconcile
ReconciledOne ==
    /\ prog = "listedon"
    /\ pc = "reconcile"
    /\ Len(resolved') = Len(resolved) + 1
    /\ Last(resolved').info # None

KeyKnown(info, tk) ==
    \E t \in SeqRange(tk) : IdentityKey(t) = <<info.chain, Lower(info.address)>>

IdKnown(info, tk) ==
    \E t \in SeqRange(tk) : Lower(t.coingecko_id) = Lower(info.coingecko_id)

AppendedEntry(info) ==
    /\ Len(tokens') = Len(tokens) + 1
    /\ SubSeq(tokens', 1, Len(tokens)) = tokens
    /\ Last(tokens').chain = info.chain
    /\ Last(tokens').address = info.address
    /\ Last(tokens').coingecko_id = info.coingecko_id

\* C10 as claimed: a resolved tuple is skipped iff its identity key is already
\* in the registry (loaded or added earlier in the run); otherwise, whatever
\* its coingecko id, a new entry is appended.
C10_SkipOnKeyOnly ==
    [][ReconciledOne =>
          LET info == Last(resolved').info[1]
          IN  IF KeyKnown(info, tokens) THEN tokens' = tokens ELSE AppendedEntry(info)]_vars

\* C10 amended: a resolved tuple is skipped iff its coingecko id or its
\* identity key is already in the registry (loaded or added earlier in the
\* run); otherwise a new entry is appended.
C10_SkipOnIdOrKey ==
    [][ReconciledOne =>
          LET info == Last(resolved').info[1]
          IN  IF IdKnown(info, tokens) \/ KeyKnown(info, tokens)
              THEN tokens' = tokens
              ELSE AppendedEntry(info)]_vars

\* a resolved tuple whose coingecko id is in the registry and whose key is
\* not, skipped
C10_Witness ==
    /\ prog = "listedon"
    /\ \E k \in DOMAIN resolved :
          /\ resolved[k].info # None
          /\ ~resolved[k].appended
          /\ IdKnown(resolved[k].info[1], tokens)
          /\ ~KeyKnown(resolved[k].info[1], tokens)

\* entries in non-descending order of (symbol, chain)
SortedBySymbolChain(tk) ==
    \A a, b \in DOMAIN tk : a < b => ~EntryLess(tk[b], tk[a])

\* C11: the registry a run has persisted (the loaded entries and the new ones)
\* is sorted by (symbol, chain).
C11_PersistedSorted ==
    (prog # "none" /\ pc = "done" /\ file.kind = "list" /\ AllObjects(file.data))
    => SortedBySymbolChain(file.data)

\* find_token_on_coingecko has been called on its own
LookedUp == prog = "none" /\ resolved # <<>>

\* the stubs the search gave (none when the search failed)
StubsFound ==
    IF HttpFailed(lastResp.search) \/ lastResp.search.json = None THEN <<>>
    ELSE lastResp.search.json[1].coins

StubOf(id) == StubsFound[CHOOSE k \in DOMAIN StubsFound : StubsFound[k].id = id]

ExactMatch(st) == Lower(st.symbol) = Lower(resolved[1].symbol)

\* st passes all filters: its coin is fetched, has an address on a supported
\* chain and a market cap in range
Survives(st) ==
    LET o == lastResp.details[st.id]
    IN  /\ ~HttpFailed(o)
        /\ o.json # None
        /\ HasSupportedAddress(o.json[1])
        /\ ~McapOutside(o.json[1])

\* the order of examination as claimed: exact matches first, then ascending
\* rank, a missing rank after every rank
RankedBefore(a, b) ==
    \/ ExactMatch(a) /\ ~ExactMatch(b)
    \/ /\ ExactMatch(a) = ExactMatch(b)
       /\ a.market_cap_rank # None
       /\ (b.market_cap_rank = None \/ a.market_cap_rank[1] < b.market_cap_rank[1])

\* the order of examination with a missing rank counted as rank NO_RANK_SCORE
ScoredBefore(a, b) ==
    LET ra == IF a.market_cap_rank = None THEN NO_RANK_SCORE ELSE a.market_cap_rank[1]
        rb == IF b.market_cap_rank = None THEN NO_RANK_SCORE ELSE b.market_cap_rank[1]
    IN  \/ ExactMatch(a) /\ ~ExactMatch(b)
        \/ ExactMatch(a) = ExactMatch(b) /\ ra < rb

\* the lookup examined the stubs in the order Before, one fetch per stub, and
\* returned the first that survives, fetching nothing after it
FirstMatchIn(Before(_, _)) ==
    LET info == resolved[1].info
        calls == resolved[1].calls
        ids == {StubsFound[k].id : k \in DOMAIN StubsFound}
    IN  /\ StubsFound = <<>> => (info = None /\ calls = <<>>)
        /\ \A p \in DOMAIN calls : calls[p] \in ids
        /\ \A p, q \in DOMAIN calls : p < q =>
              (calls[p] # calls[q] /\ ~Before(StubOf(calls[q]), StubOf(calls[p])))
        /\ \A id \in ids : \A p \in DOMAIN calls :
              id \notin SeqRange(calls) => ~Before(StubOf(id), StubOf(calls[p]))
        /\ \A p \in DOMAIN calls : p < Len(calls) => ~Survives(StubOf(calls[p]))
        /\ info # None =>
              /\ calls # <<>>
              /\ Survives(StubOf(Last(calls)))
              /\ info[1].coingecko_id = Last(calls)
        /\ info = None => \A id \in ids : id \in SeqRange(calls) /\ ~Survives(StubOf(id))

\* C12: find_token_on_coingecko returns none on an empty search; otherwise it
\* examines exact symbol matches first and, among equals, ascending rank with a
\* missing rank last, fetches one stub at a time, returns the first stub that
\* survives the filters and fetches no stub after it.
C12_SelectionOrder == LookedUp => FirstMatchIn(RankedBefore)

\* the same with a missing rank placed where the code's score puts it, at rank
\* NO_RANK_SCORE: the rest of the selection rule is what the code does
C12_SelectionOrderByScore == LookedUp => FirstMatchIn(ScoredBefore)

\* choose_chain_and_address has been called on its own
ChainChosen == prog = "none" /\ resolved # <<>>

\* the (chain, address) pairs of the mapping with an address on a supported chain
SupportedPairs(platforms) ==
    {[chain |-> PLATFORM_TO_CHAIN(Lower(p.name))[1], addr |-> p.addr] :
        p \in {q \in SeqRange(platforms) :
                  /\ q.addr # ""
                  /\ PLATFORM_TO_CHAIN(Lower(q.name)) # None
                  /\ PLATFORM_TO_CHAIN(Lower(q.name))[1] \in ALLOWED_CHAINS}}

\* the preference order bnb > ethereum > solana; any other chain comes after
PreferenceRank(chain) ==
    CASE chain = "bnb" -> 1
      [] chain = "ethereum" -> 2
      [] chain = "solana" -> 3
      [] OTHER -> 4

FirstSupported(platforms) ==
    LET at == Min({k \in DOMAIN platforms :
                      /\ platforms[k].addr # ""
                      /\ PLATFORM_TO_CHAIN(Lower(platforms[k].name)) # None
                      /\ PLATFORM_TO_CHAIN(Lower(platforms[k].name))[1] \in ALLOWED_CHAINS})
    IN  [chain |-> PLATFORM_TO_CHAIN(Lower(platforms[at].name))[1], addr |-> platforms[at].addr]

\* C13: choose_chain_and_address returns none iff no platform with a non-empty
\* address maps to a supported chain; otherwise it returns one (chain, address)
\* pair of the mapping whose chain is the highest-ranked one present in the
\* order bnb > ethereum > solana, and the first supported pair in iteration
\* order when no preferred chain is present.
C13_ChainSelection ==
    ChainChosen =>
        LET platforms == lastResp.platforms
            result == resolved[1].info
            pairs == SupportedPairs(platforms)
        IN  /\ result = None <=> pairs = {}
            /\ Len(result) <= 1
            /\ result # None =>
                  /\ result[1] \in pairs
                  /\ \A p \in pairs : PreferenceRank(result[1].chain) <= PreferenceRank(p.chain)
                  /\ (\A p \in pairs : PreferenceRank(p.chain) = 4) =>
                        result[1] = FirstSupported(platforms)

\* a mapping that lists solana first, then ethereum, then BNB chain, all with
\* addresses: the BNB chain pair is returned
C13_Witness ==
    /\ ChainChosen
    /\ Len(lastResp.platforms) = 3
    /\ lastResp.platforms[1] = Plat("solana", "So1")
    /\ lastResp.platforms[2] = Plat("Ethereum", "0xaa")
    /\ lastResp.platforms[3] = Plat("binance-smart-chain", "0xBB")
    /\ resolved[1].info = Some([chain |-> "bnb", addr |-> "0xBB"])

====
